---- MODULE Spec2Model ----
(***************************************************************************)
(* gpumon-go: a sampling loop that reads GPU telemetry through NVML and    *)
(* prints it as JSON (src/main.go, and the earlier variant                 *)
(* src/unnamed/part_000 without the CloudWatch code).                      *)
(*                                                                         *)
(* float32 values are modelled exactly, as dyadic rationals m * 2^e in     *)
(* canonical form (m odd, or m = 0 and e = 0), so that the rounding of the *)
(* conversions of the code is part of the model.                           *)
(***************************************************************************)
EXTENDS Integers, Sequences, FiniteSets, TLC

VARIABLES
    variant,        \* which main package runs: "main.go" or "part_000"
    pc,             \* position of the main goroutine
    hpc,            \* position of the signal-handler goroutine
    exitCode,       \* -1 while the process runs, else the process's exit status
    stderr,         \* messages written by the log package
    nvmlInitialized,\* nvml.Init has returned SUCCESS
    deferred,       \* deferred calls registered by main, not yet run
    shutdownCalls,  \* number of calls of nvml.Shutdown
    count,          \* number of devices the library reports
    device,         \* main's variable device
    frame,          \* locals of GetMetrics/GetUtilization in the current tick
    metrics,        \* main's variable metrics
    err,            \* main's variable err (<<>> is nil)
    jsonMetrics,    \* main's variable jsonMetrics
    stdout,         \* records printed in the current loop iteration
    reads,          \* telemetry reads issued to the library in the current iteration
    slept,          \* seconds of the latest time.Sleep (0: none yet)
    sigDelivered,   \* the OS has delivered SIGINT or SIGTERM at least once
    sigDropped,     \* a delivered signal found no receiver on channel c
    pubArgs,        \* arguments of the PublishCloudwatchMetrics call
    putCalls,       \* PutMetricDataInput values sent to the CloudWatch client
    pubErr          \* the error PublishCloudwatchMetrics returned (<<>> is nil)

vars == <<variant, pc, hpc, exitCode, stderr, nvmlInitialized, deferred,
          shutdownCalls, count, device, frame, metrics, err, jsonMetrics,
          stdout, reads, slept, sigDelivered, sigDropped, pubArgs, putCalls,
          pubErr>>

mainVars == <<variant, pc, exitCode, stderr, nvmlInitialized, deferred,
              shutdownCalls, count, device, frame, metrics, err, jsonMetrics,
              stdout, reads, slept>>

pubVars == <<pubArgs, putCalls, pubErr>>

sigVars == <<hpc, sigDelivered, sigDropped>>

----------------------------------------------------------------------------
(* Bounds of the model and constants of the program.                       *)

MaxDeviceCount == 1         \* the library reports 0..MaxDeviceCount devices
MaxTemperature == 1         \* temperature readings 0 and 64 .. 64 + MaxTemperature
DeviceIndex == 0            \* GetDevice(0)
SleepSeconds == 5           \* time.Sleep(time.Second * 5)
Milli == 1000               \* float32(power) / 1000.0
GiBShift == 30              \* / (1 << 30)
F32Precision == 24          \* significand bits of a float32

Variants == {"main.go", "part_000"}

Returns == {"SUCCESS", "ERROR_GPU_IS_LOST", "ERROR_NOT_SUPPORTED"}

TemperatureReadings == {0} \cup (64 .. 64 + MaxTemperature)

\* milliwatts, as nvmlDeviceGetPowerUsage reports them
PowerReadings == {27453, 128000, 128001}

\* bytes: none, 16 MiB + 1, 16 MiB + 3, 512 MiB, 1 GiB, 1.5 GiB
MemoryTotalReadings == {1073741824, 1610612736}
MemoryUsedReadings == {0, 16777217, 16777219, 536870912}

GpuReadings == {0, 37, 100}

----------------------------------------------------------------------------
(* float32 arithmetic.                                                     *)

RECURSIVE Pow2(_)
Pow2(n) == IF n <= 0 THEN 1 ELSE 2 * Pow2(n - 1)

RECURSIVE BitLen(_)
BitLen(n) == IF n = 0 THEN 0 ELSE 1 + BitLen(n \div 2)

F32Zero == [m |-> 0, e |-> 0]

RECURSIVE Canon(_, _)
Canon(m, e) ==
    IF m = 0 THEN F32Zero
    ELSE IF m % 2 = 0 THEN Canon(m \div 2, e + 1)
    ELSE [m |-> m, e |-> e]

\* n shifted right by k >= 1 bits, rounded to nearest, ties to even
RoundHalfEven(n, k) ==
    LET q == n \div Pow2(k)
        r == n % Pow2(k)
        half == Pow2(k - 1)
    IN  IF r > half \/ (r = half /\ q % 2 = 1) THEN q + 1 ELSE q

\* float32(n) for an unsigned integer n
F32FromUint(n) ==
    LET b == BitLen(n)
    IN  IF b <= F32Precision THEN Canon(n, 0)
        ELSE Canon(RoundHalfEven(n, b - F32Precision), b - F32Precision)

\* x / (1 << k) in float32: exact, the exponent stays far from the subnormals
F32QuoPow2(x, k) == IF x.m = 0 THEN F32Zero ELSE [m |-> x.m, e |-> x.e - k]

\* binary long division: quotient bits until the significand has 24 bits
RECURSIVE LongDiv(_, _, _, _)
LongDiv(q, r, k, d) ==
    IF q >= Pow2(F32Precision - 1) THEN [q |-> q, r |-> r, k |-> k]
    ELSE IF 2 * r >= d THEN LongDiv(2 * q + 1, 2 * r - d, k + 1, d)
    ELSE LongDiv(2 * q, 2 * r, k + 1, d)

\* x / d in float32, d a positive integer constant that float32 holds exactly:
\* the correctly rounded quotient (round to nearest, ties to even)
F32Quo(x, d) ==
    IF x.m = 0 THEN F32Zero
    ELSE LET s == LongDiv(x.m \div d, x.m % d, 0, d)
             up == 2 * s.r > d \/ (2 * s.r = d /\ s.q % 2 = 1)
         IN  Canon(IF up THEN s.q + 1 ELSE s.q, x.e - s.k)

----------------------------------------------------------------------------
(* Values of the program.                                                  *)

\* nvml.ErrorString(ret)
ErrorString(ret) ==
    CASE ret = "SUCCESS" -> "Success"
      [] ret = "ERROR_GPU_IS_LOST" -> "GPU is lost"
      [] ret = "ERROR_NOT_SUPPORTED" -> "Not Supported"

\* Device.deviceHandleErrorString: fmt.Errorf("%s", nvml.ErrorString(ret))
deviceHandleErrorString(ret) == <<"%s", ErrorString(ret)>>

Nil == <<>>

\* Device{}
ZeroDevice == [Index |-> 0, UUID |-> "", Handle |-> 0]

\* what the library hands out for the device at an index
HandleOf(index) == index + 1
UUIDOf(index) == IF index = 0 THEN "GPU-0" ELSE "GPU-n"

\* Metrics{}
ZeroMetrics ==
    [Temperature |-> 0, Power |-> F32Zero, GpuUsage |-> 0,
     MemoryTotal |-> F32Zero, MemoryUsed |-> F32Zero]

ZeroFrame == [temp |-> 0, power |-> F32Zero, total |-> F32Zero, used |-> F32Zero]

\* a faulty GetPower: milliwatts divided by 1024
PowerWattsBinary(power) == F32QuoPow2(F32FromUint(power), 10)

\* GetPower: actual := float32(power) / 1000.0
PowerWatts(power) == F32Quo(F32FromUint(power), Milli)

\* GetUtilization: float32(memory.Total) / (1 << 30)
GigaBytes(bytes) == F32QuoPow2(F32FromUint(bytes), GiBShift)

\* the two conversions on the readings of the model, evaluated once
PowerWattsOf == [p \in PowerReadings |-> PowerWatts(p)]
GigaBytesOf == [b \in MemoryTotalReadings \cup MemoryUsedReadings |-> GigaBytes(b)]

\* the json tag of the field MemoryUsed
MemoryUsedTag(v) == IF v = "main.go" THEN "memory_used" ELSE "memory_available"

JsonTags(v) == {"temperature", "power", "gpu_usage", "memory_total", MemoryUsedTag(v)}

\* json.Marshal(metrics): the object, and the error. encoding/json refuses only
\* NaN and the infinities, which no quotient of an unsigned integer is; a float
\* is written in the shortest decimal form that reads back as the same float32,
\* so the object carries the float32 value itself.
MarshalJSON(m, v) ==
    [err |-> Nil,
     json |-> [k \in JsonTags(v) |->
                CASE k = "temperature" -> m.Temperature
                  [] k = "power" -> m.Power
                  [] k = "gpu_usage" -> m.GpuUsage
                  [] k = "memory_total" -> m.MemoryTotal
                  [] OTHER -> m.MemoryUsed]]

NoJSON == [k \in {} |-> 0]

Running == exitCode = -1

\* os.Exit(code): the process ends at once; deferred calls are not run
OsExit(code) ==
    /\ exitCode' = code
    /\ pc' = "exited"
    /\ UNCHANGED <<deferred, shutdownCalls>>

\* log.Fatalf(msg): write the message, then os.Exit(1)
LogFatalf(msg) ==
    /\ stderr' = Append(stderr, msg)
    /\ OsExit(1)

----------------------------------------------------------------------------
(* The main goroutine.                                                     *)

\* main: config.LoadDefaultConfig and cloudwatch.NewFromConfig (main.go only)
LoadDefaultConfig ==
    /\ Running
    /\ pc = "LoadDefaultConfig"
    /\ \E ok \in BOOLEAN :
         IF ok
         THEN /\ pc' = "NvmlInit"
              /\ UNCHANGED <<exitCode, stderr, deferred, shutdownCalls>>
         ELSE LogFatalf(<<"Unable to load AWS config: %v", "no config">>)
    /\ UNCHANGED <<variant, nvmlInitialized, count, device, frame, metrics, err,
                   jsonMetrics, stdout, reads, slept>>
    /\ UNCHANGED sigVars
    /\ UNCHANGED pubVars

\* main: nvml.Init, and the deferred nvml.Shutdown
NvmlInit ==
    /\ Running
    /\ pc = "NvmlInit"
    /\ \E ret \in Returns :
         IF ret # "SUCCESS"
         THEN /\ LogFatalf(<<"Unable to initialize NVML: %v", ErrorString(ret)>>)
              /\ UNCHANGED nvmlInitialized
         ELSE /\ nvmlInitialized' = TRUE
              /\ deferred' = Append(deferred, "nvml.Shutdown")
              /\ pc' = "DeviceGetCount"
              /\ UNCHANGED <<exitCode, stderr, shutdownCalls>>
    /\ UNCHANGED <<variant, count, device, frame, metrics, err, jsonMetrics,
                   stdout, reads, slept>>
    /\ UNCHANGED sigVars
    /\ UNCHANGED pubVars

\* GetDevice(0): nvml.DeviceGetCount and the range check
DeviceGetCount ==
    /\ Running
    /\ pc = "DeviceGetCount"
    /\ \E ret \in Returns :
         IF ret # "SUCCESS"
         THEN LogFatalf(<<"Unable to get device count: %v", ErrorString(ret)>>)
         ELSE IF count <= DeviceIndex - 1
         THEN LogFatalf(<<"Device index out of range">>)
         ELSE /\ pc' = "DeviceGetHandleByIndex"
              /\ UNCHANGED <<exitCode, stderr, deferred, shutdownCalls>>
    /\ UNCHANGED <<variant, nvmlInitialized, count, device, frame, metrics, err,
                   jsonMetrics, stdout, reads, slept>>
    /\ UNCHANGED sigVars
    /\ UNCHANGED pubVars

\* GetDevice(0): nvml.DeviceGetHandleByIndex; on failure GetDevice returns
\* Device{} and an error, and main ends with log.Fatalf
DeviceGetHandleByIndex ==
    /\ Running
    /\ pc = "DeviceGetHandleByIndex"
    /\ \E ret \in Returns :
         IF ret # "SUCCESS"
         THEN /\ err' = <<"unable to get device at index %d: %v", DeviceIndex,
                          ErrorString(ret)>>
              /\ LogFatalf(<<"Unable to get device: %v", err'>>)
         ELSE /\ pc' = "GetUUID"
              /\ UNCHANGED <<err, exitCode, stderr, deferred, shutdownCalls>>
    /\ UNCHANGED <<variant, nvmlInitialized, count, device, frame, metrics,
                   jsonMetrics, stdout, reads, slept>>
    /\ UNCHANGED sigVars
    /\ UNCHANGED pubVars

\* GetDevice(0): device.GetUUID and the return of the Device
GetUUID ==
    /\ Running
    /\ pc = "GetUUID"
    /\ \E ret \in Returns :
         IF ret # "SUCCESS"
         THEN /\ err' = <<"unable to get uuid of device at index %d: %v", DeviceIndex,
                          ErrorString(ret)>>
              /\ LogFatalf(<<"Unable to get device: %v", err'>>)
              /\ UNCHANGED device
         ELSE /\ device' = [Index |-> DeviceIndex, UUID |-> UUIDOf(DeviceIndex),
                            Handle |-> HandleOf(DeviceIndex)]
              /\ pc' = "GetTemperature"
              /\ UNCHANGED <<err, exitCode, stderr, deferred, shutdownCalls>>
    /\ UNCHANGED <<variant, nvmlInitialized, count, frame, metrics,
                   jsonMetrics, stdout, reads, slept>>
    /\ UNCHANGED sigVars
    /\ UNCHANGED pubVars

Read(call, ret, value) == [call |-> call, ret |-> ret, value |-> value]

\* GetMetrics: d.GetTemperature()
GetTemperature ==
    /\ Running
    /\ pc = "GetTemperature"
    /\ \E ret \in Returns, t \in TemperatureReadings :
         IF ret # "SUCCESS"
         THEN /\ reads' = Append(reads, Read("GetTemperature", ret, <<>>))
              /\ metrics' = ZeroMetrics
              /\ err' = deviceHandleErrorString(ret)
              /\ pc' = "CheckMetrics"
              /\ UNCHANGED frame
         ELSE /\ reads' = Append(reads, Read("GetTemperature", ret, <<t>>))
              /\ frame' = [frame EXCEPT !.temp = t]
              /\ pc' = "GetPower"
              /\ UNCHANGED <<metrics, err>>
    /\ UNCHANGED <<variant, exitCode, stderr, nvmlInitialized, deferred,
                   shutdownCalls, count, device, jsonMetrics, stdout, slept>>
    /\ UNCHANGED sigVars
    /\ UNCHANGED pubVars

\* GetMetrics: d.GetPower()
GetPower ==
    /\ Running
    /\ pc = "GetPower"
    /\ \E ret \in Returns, p \in PowerReadings :
         IF ret # "SUCCESS"
         THEN /\ reads' = Append(reads, Read("GetPowerUsage", ret, <<>>))
              /\ metrics' = ZeroMetrics
              /\ err' = deviceHandleErrorString(ret)
              /\ pc' = "CheckMetrics"
              /\ UNCHANGED frame
         ELSE /\ reads' = Append(reads, Read("GetPowerUsage", ret, <<p>>))
              /\ frame' = [frame EXCEPT !.power = PowerWattsOf[p]]
              /\ pc' = "GetMemoryInfo"
              /\ UNCHANGED <<metrics, err>>
    /\ UNCHANGED <<variant, exitCode, stderr, nvmlInitialized, deferred,
                   shutdownCalls, count, device, jsonMetrics, stdout, slept>>
    /\ UNCHANGED sigVars
    /\ UNCHANGED pubVars

\* GetMetrics: d.GetUtilization(), its read of the memory info
GetMemoryInfo ==
    /\ Running
    /\ pc = "GetMemoryInfo"
    /\ \E ret \in Returns, total \in MemoryTotalReadings, used \in MemoryUsedReadings :
         IF ret # "SUCCESS"
         THEN /\ reads' = Append(reads, Read("GetMemoryInfo", ret, <<>>))
              /\ metrics' = ZeroMetrics
              /\ err' = deviceHandleErrorString(ret)
              /\ pc' = "CheckMetrics"
              /\ UNCHANGED frame
         ELSE /\ reads' = Append(reads, Read("GetMemoryInfo", ret, <<total, used>>))
              /\ frame' = [frame EXCEPT !.total = GigaBytesOf[total],
                                        !.used = GigaBytesOf[used]]
              /\ pc' = "GetUtilizationRates"
              /\ UNCHANGED <<metrics, err>>
    /\ UNCHANGED <<variant, exitCode, stderr, nvmlInitialized, deferred,
                   shutdownCalls, count, device, jsonMetrics, stdout, slept>>
    /\ UNCHANGED sigVars
    /\ UNCHANGED pubVars

\* a faulty GetUtilization: a failed utilization read keeps the memory values
\* already read
GetUtilizationRatesKeepingMemory ==
    /\ Running
    /\ pc = "GetUtilizationRates"
    /\ \E ret \in Returns, g \in GpuReadings :
         /\ reads' = Append(reads, Read("GetUtilizationRates", ret,
                                        IF ret = "SUCCESS" THEN <<g>> ELSE <<>>))
         /\ metrics' = IF ret = "SUCCESS"
                       THEN [Temperature |-> frame.temp, Power |-> frame.power,
                             GpuUsage |-> g, MemoryTotal |-> frame.total,
                             MemoryUsed |-> frame.used]
                       ELSE [ZeroMetrics EXCEPT !.MemoryTotal = frame.total,
                                                !.MemoryUsed = frame.used]
         /\ err' = IF ret = "SUCCESS" THEN Nil ELSE deviceHandleErrorString(ret)
         /\ pc' = "CheckMetrics"
    /\ UNCHANGED <<variant, exitCode, stderr, nvmlInitialized, deferred, frame,
                   shutdownCalls, count, device, jsonMetrics, stdout, slept>>
    /\ UNCHANGED sigVars
    /\ UNCHANGED pubVars

\* GetMetrics: d.GetUtilization(), its read of the utilization rates, and the
\* return of GetMetrics
GetUtilizationRates ==
    /\ Running
    /\ pc = "GetUtilizationRates"
    /\ \E ret \in Returns, g \in GpuReadings :
         IF ret # "SUCCESS"
         THEN /\ reads' = Append(reads, Read("GetUtilizationRates", ret, <<>>))
              /\ metrics' = ZeroMetrics
              /\ err' = deviceHandleErrorString(ret)
              /\ pc' = "CheckMetrics"
         ELSE /\ reads' = Append(reads, Read("GetUtilizationRates", ret, <<g>>))
              /\ metrics' = [Temperature |-> frame.temp, Power |-> frame.power,
                             GpuUsage |-> g, MemoryTotal |-> frame.total,
                             MemoryUsed |-> frame.used]
              /\ err' = Nil
              /\ pc' = "CheckMetrics"
    /\ UNCHANGED <<variant, exitCode, stderr, nvmlInitialized, deferred, frame,
                   shutdownCalls, count, device, jsonMetrics, stdout, slept>>
    /\ UNCHANGED sigVars
    /\ UNCHANGED pubVars

\* a faulty error check: main goes on with the record whatever err is
CheckMetricsIgnoringErr ==
    /\ Running
    /\ pc = "CheckMetrics"
    /\ pc' = "Marshal"
    /\ UNCHANGED <<variant, exitCode, stderr, nvmlInitialized, deferred,
                   shutdownCalls, count, device, frame, metrics, err,
                   jsonMetrics, stdout, reads, slept>>
    /\ UNCHANGED sigVars
    /\ UNCHANGED pubVars

\* main: if err != nil { log.Fatalf("Unable to get metrics: %v", err) }
CheckMetrics ==
    /\ Running
    /\ pc = "CheckMetrics"
    /\ IF Len(err) > 0
       THEN LogFatalf(<<"Unable to get metrics: %v", err>>)
       ELSE /\ pc' = "Marshal"
            /\ UNCHANGED <<exitCode, stderr, deferred, shutdownCalls>>
    /\ UNCHANGED <<variant, nvmlInitialized, count, device, frame, metrics, err,
                   jsonMetrics, stdout, reads, slept>>
    /\ UNCHANGED sigVars
    /\ UNCHANGED pubVars

\* main: json.Marshal(metrics) and its error check
Marshal ==
    /\ Running
    /\ pc = "Marshal"
    /\ LET r == MarshalJSON(metrics, variant)
       IN  /\ err' = r.err
           /\ IF Len(r.err) > 0
              THEN /\ LogFatalf(<<"Unable to marshal metrics to JSON: %v", r.err>>)
                   /\ UNCHANGED jsonMetrics
              ELSE /\ jsonMetrics' = r.json
                   /\ pc' = "Println"
                   /\ UNCHANGED <<exitCode, stderr, deferred, shutdownCalls>>
    /\ UNCHANGED <<variant, nvmlInitialized, count, device, frame, metrics,
                   stdout, reads, slept>>
    /\ UNCHANGED sigVars
    /\ UNCHANGED pubVars

\* a faulty emission: the record is printed twice
PrintlnTwice ==
    /\ Running
    /\ pc = "Println"
    /\ stdout' = stdout \o <<jsonMetrics, jsonMetrics>>
    /\ pc' = "Sleep"
    /\ UNCHANGED <<variant, exitCode, stderr, nvmlInitialized, deferred,
                   shutdownCalls, count, device, frame, metrics, err,
                   jsonMetrics, reads, slept>>
    /\ UNCHANGED sigVars
    /\ UNCHANGED pubVars

\* main: fmt.Println(string(jsonMetrics))
Println ==
    /\ Running
    /\ pc = "Println"
    /\ stdout' = Append(stdout, jsonMetrics)
    /\ pc' = "Sleep"
    /\ UNCHANGED <<variant, exitCode, stderr, nvmlInitialized, deferred,
                   shutdownCalls, count, device, frame, metrics, err,
                   jsonMetrics, reads, slept>>
    /\ UNCHANGED sigVars
    /\ UNCHANGED pubVars

\* main: time.Sleep(time.Second * 5), then the next iteration, whose variables
\* are fresh
Sleep ==
    /\ Running
    /\ pc = "Sleep"
    /\ slept' = SleepSeconds
    /\ pc' = "GetTemperature"
    /\ frame' = ZeroFrame
    /\ metrics' = ZeroMetrics
    /\ err' = Nil
    /\ jsonMetrics' = NoJSON
    /\ stdout' = <<>>
    /\ reads' = <<>>
    /\ UNCHANGED <<variant, exitCode, stderr, nvmlInitialized, deferred,
                   shutdownCalls, count, device>>
    /\ UNCHANGED sigVars
    /\ UNCHANGED pubVars

----------------------------------------------------------------------------
(* The signal handler: c := make(chan os.Signal); signal.Notify(c, ...);   *)
(* go func() { <-c; os.Exit(1) }().  c has no buffer, and the os/signal    *)
(* package never blocks sending to it: a signal that finds no goroutine    *)
(* receiving on c is dropped.                                              *)

\* the goroutine starts and blocks in <-c
HandlerReceive ==
    /\ Running
    /\ hpc = "spawned"
    /\ hpc' = "receiving"
    /\ UNCHANGED <<sigDelivered, sigDropped>>
    /\ UNCHANGED mainVars
    /\ UNCHANGED pubVars

\* the OS delivers SIGINT or SIGTERM and os/signal offers it to c
Signal ==
    /\ Running
    /\ sigDelivered' = TRUE
    /\ IF hpc = "receiving"
       THEN /\ hpc' = "signalled"
            /\ UNCHANGED sigDropped
       ELSE /\ sigDropped' = TRUE
            /\ UNCHANGED hpc
    /\ UNCHANGED mainVars
    /\ UNCHANGED pubVars

\* the goroutine has received from c: os.Exit(1)
HandlerExit ==
    /\ Running
    /\ hpc = "signalled"
    /\ hpc' = "exited"
    /\ OsExit(1)
    /\ UNCHANGED <<variant, stderr, nvmlInitialized, count, device, frame, metrics,
                   err, jsonMetrics, stdout, reads, slept>>
    /\ UNCHANGED <<sigDelivered, sigDropped>>
    /\ UNCHANGED pubVars

----------------------------------------------------------------------------
(* The specification of the program.                                       *)

NoPubArgs == [instanceID |-> "", instanceType |-> "", resolution |-> 0,
              namespace |-> ""]

Init ==
    /\ variant \in Variants
    /\ pc = IF variant = "main.go" THEN "LoadDefaultConfig" ELSE "NvmlInit"
    /\ hpc = "spawned"
    /\ exitCode = -1
    /\ stderr = <<>>
    /\ nvmlInitialized = FALSE
    /\ deferred = <<>>
    /\ shutdownCalls = 0
    /\ count \in 0 .. MaxDeviceCount
    /\ device = ZeroDevice
    /\ frame = ZeroFrame
    /\ metrics = ZeroMetrics
    /\ err = Nil
    /\ jsonMetrics = NoJSON
    /\ stdout = <<>>
    /\ reads = <<>>
    /\ slept = 0
    /\ sigDelivered = FALSE
    /\ sigDropped = FALSE
    /\ pubArgs = NoPubArgs
    /\ putCalls = <<>>
    /\ pubErr = Nil

GetDevice == DeviceGetCount \/ DeviceGetHandleByIndex \/ GetUUID

GetMetrics == GetTemperature \/ GetPower \/ GetMemoryInfo \/ GetUtilizationRates

Main ==
    \/ LoadDefaultConfig
    \/ NvmlInit
    \/ GetDevice
    \/ GetMetrics
    \/ CheckMetrics
    \/ Marshal
    \/ Println
    \/ Sleep

Handler == HandlerReceive \/ HandlerExit

Next == Main \/ Handler \/ Signal

Spec == Init /\ [][Next]_vars

\* the Go scheduler runs a runnable goroutine, the library calls return and
\* the sleep ends
FairSpec == Init /\ [][Next]_vars /\ WF_vars(Main) /\ WF_vars(Handler)

----------------------------------------------------------------------------
(* The cloud sink, Metrics.PublishCloudwatchMetrics, applied to a record.  *)

\* float64(u) of an unsigned integer below 2^53, and float64(x) of a float32:
\* both exact
F64FromUint(u) == Canon(u, 0)
F64FromF32(x) == x

Dimensions(instanceID, instanceType) ==
    <<[Name |-> "InstancesId", Value |-> instanceID],
      [Name |-> "InstanceType", Value |-> instanceType]>>

Datum(name, dimensions, unit, resolution, value) ==
    [MetricName |-> name, Dimensions |-> dimensions, Unit |-> unit,
     StorageResolution |-> resolution, Value |-> value]

\* a faulty metricData: the temperature datum is left at the standard resolution
MetricDataFixedResolution(m, dimensions, resolution) ==
    <<Datum("GPU Usage", dimensions, "Percent", resolution, F64FromUint(m.GpuUsage)),
      Datum("Memory Used", dimensions, "Megabytes", resolution, F64FromF32(m.MemoryUsed)),
      Datum("Temperature (C)", dimensions, "None", 60, F64FromUint(m.Temperature)),
      Datum("Power (W)", dimensions, "None", resolution, F64FromF32(m.Power))>>

\* metricData := []types.MetricDatum{...}
MetricData(m, dimensions, resolution) ==
    <<Datum("GPU Usage", dimensions, "Percent", resolution, F64FromUint(m.GpuUsage)),
      Datum("Memory Used", dimensions, "Megabytes", resolution, F64FromF32(m.MemoryUsed)),
      Datum("Temperature (C)", dimensions, "None", resolution, F64FromUint(m.Temperature)),
      Datum("Power (W)", dimensions, "None", resolution, F64FromF32(m.Power))>>

\* input := &cloudwatch.PutMetricDataInput{...}
PutMetricDataInput(m, a) ==
    [MetricData |-> MetricData(m, Dimensions(a.instanceID, a.instanceType), a.resolution),
     Namespace |-> a.namespace]

InstanceIDs == {"i-0a1b", "i-0c2d"}
InstanceTypes == {"g4dn.xlarge", "p3.2xlarge"}
Resolutions == {1, 60}
Namespaces == {"GPU"}

MetricsSamples ==
    {[Temperature |-> t, Power |-> PowerWattsOf[p], GpuUsage |-> g,
      MemoryTotal |-> GigaBytesOf[mt], MemoryUsed |-> GigaBytesOf[mu]] :
        t \in TemperatureReadings, p \in PowerReadings, g \in GpuReadings,
        mt \in MemoryTotalReadings, mu \in MemoryUsedReadings}

\* m.PublishCloudwatchMetrics(ctx, client, instanceID, instanceType, resolution,
\* namespace): client.PutMetricData succeeds or fails
PublishCloudwatchMetrics ==
    /\ pc = "PublishCloudwatchMetrics"
    /\ \E ok \in BOOLEAN :
         /\ putCalls' = Append(putCalls, PutMetricDataInput(metrics, pubArgs))
         /\ pubErr' = IF ok THEN Nil
                      ELSE <<"Unable to publish metrics to CloudWatch: %v", "put failed">>
    /\ pc' = "published"
    /\ UNCHANGED pubArgs
    /\ UNCHANGED <<variant, exitCode, stderr, nvmlInitialized, deferred,
                   shutdownCalls, count, device, frame, metrics, err,
                   jsonMetrics, stdout, reads, slept>>
    /\ UNCHANGED sigVars

\* a record m and the arguments of one call
InitPublish ==
    /\ variant = "main.go"
    /\ pc = "PublishCloudwatchMetrics"
    /\ hpc = "spawned"
    /\ exitCode = -1
    /\ stderr = <<>>
    /\ nvmlInitialized = FALSE
    /\ deferred = <<>>
    /\ shutdownCalls = 0
    /\ count = 0
    /\ device = ZeroDevice
    /\ frame = ZeroFrame
    /\ metrics \in MetricsSamples
    /\ err = Nil
    /\ jsonMetrics = NoJSON
    /\ stdout = <<>>
    /\ reads = <<>>
    /\ slept = 0
    /\ sigDelivered = FALSE
    /\ sigDropped = FALSE
    /\ pubArgs \in [instanceID : InstanceIDs, instanceType : InstanceTypes,
                    resolution : Resolutions, namespace : Namespaces]
    /\ putCalls = <<>>
    /\ pubErr = Nil

NextPublish == PublishCloudwatchMetrics

SpecPublish == InitPublish /\ [][NextPublish]_vars

----------------------------------------------------------------------------
(* Properties.                                                             *)

ReadOrder == <<"GetTemperature", "GetPowerUsage", "GetMemoryInfo", "GetUtilizationRates">>

AnyReadFailed == \E i \in 1 .. Len(reads) : reads[i].ret # "SUCCESS"

AllReadsDone == Len(reads) = Len(ReadOrder) /\ ~AnyReadFailed

IndexInRange == DeviceIndex \in 0 .. count - 1

LoopPositions ==
    {"GetTemperature", "GetPower", "GetMemoryInfo", "GetUtilizationRates",
     "CheckMetrics", "Marshal", "Println", "Sleep"}

\* C1: no partial record is emitted: once a read of the current iteration has
\* failed, GetMetrics has returned an error and nothing is printed in that
\* iteration, whichever read failed and whatever the others returned; a record
\* is printed only after all four reads succeeded
C1_NoPartialRecord ==
    /\ AnyReadFailed =>
         /\ Len(err) > 0
         /\ stdout = <<>>
         /\ pc \in {"CheckMetrics", "exited"}
    /\ stdout # <<>> => AllReadsDone

\* the memory read failed after two successful reads and main ended with log.Fatalf
C1_Witness ==
    /\ Len(reads) = 3
    /\ reads[3].ret # "SUCCESS"
    /\ exitCode = 1
    /\ Len(stderr) = 1
    /\ stdout = <<>>

\* C2: an out-of-range device index fails before any read: when index 0 is not
\* in 0..count-1, GetDevice yields no Device and no telemetry read is performed
C2_OutOfRangeFailsBeforeRead ==
    ~IndexInRange => (device = ZeroDevice /\ reads = <<>>)

\* C3: once the library is initialized, nvml.Shutdown has been called exactly
\* once when the process has exited, on every exit path
C3_ShutdownOnceOnExit ==
    (~Running /\ nvmlInitialized) => shutdownCalls = 1

\* C4: every error is fatal and never retried: after an out-of-range index or a
\* failed read no further read, emission or sleep happens and the process ends
\* with a logged message
C4_EveryErrorFatal ==
    /\ ~IndexInRange => (reads = <<>> /\ stdout = <<>> /\ slept = 0)
    /\ AnyReadFailed =>
         /\ reads[Len(reads)].ret # "SUCCESS"
         /\ stdout = <<>>
         /\ pc \in {"CheckMetrics", "exited"}
    /\ (exitCode = 1 /\ hpc # "exited") => Len(stderr) = 1

\* C5: under normal operation the loop runs forever and emits exactly one
\* record per interval: a sample is followed by one emission and then the
\* 5-second sleep, and the sleep by the next sample, unless the process exits
C5_OneRecordPerInterval ==
    /\ [](pc = "Sleep" => Len(stdout) = 1)
    /\ [](pc \in LoopPositions \ {"Sleep"} => stdout = <<>>)
    /\ [](slept \in {0, SleepSeconds})
    /\ [](pc = "Sleep" => ENABLED Sleep)
    /\ (pc = "GetTemperature") ~> (pc = "Sleep" \/ ~Running)
    /\ (pc = "Sleep") ~> ((pc = "GetTemperature" /\ slept = SleepSeconds) \/ ~Running)

\* a record has been emitted in an iteration that followed a sleep
C5_Witness ==
    /\ pc = "Sleep"
    /\ slept = SleepSeconds
    /\ Len(stdout) = 1

RECURSIVE OddPart(_)
OddPart(n) == IF n % 2 = 0 THEN OddPart(n \div 2) ELSE n

RECURSIVE TwoExp(_)
TwoExp(n) == IF n % 2 = 0 THEN 1 + TwoExp(n \div 2) ELSE 0

\* the 24-bit significand M and exponent E of a float32 x # 0: x = M * 2^E
Normalized(x) ==
    LET j == F32Precision - BitLen(x.m)
    IN  [M |-> x.m * Pow2(j), E |-> x.e - j]

\* x * d = n in exact arithmetic (d = 2^TwoExp(d) * OddPart(d))
IsQuotient(x, n, d) ==
    IF n = 0 THEN x = F32Zero
    ELSE /\ x.m > 0
         /\ LET s == x.e + TwoExp(d)
            IN  /\ s \in 0 .. 30
                /\ n % Pow2(s) = 0
                /\ n \div Pow2(s) = OddPart(d) * x.m

\* |x - n/1000| is at most half a unit in the last place of x:
\* |125 * M - n * 2^K| <= 62 for x = M * 2^E and K = -E - 3
IsNearestMilli(x, n) ==
    IF n = 0 THEN x = F32Zero
    ELSE /\ x.m > 0
         /\ LET nz == Normalized(x)
                K == 0 - nz.E - TwoExp(Milli)
                D == OddPart(Milli) * nz.M
                slack == OddPart(Milli) \div 2
            IN  /\ K \in 0 .. 30
                /\ \E t \in (D - slack) .. (D + slack) :
                     t % Pow2(K) = 0 /\ t \div Pow2(K) = n

\* x is the float32 nearest to n / 2^k, ties to the even significand
IsNearestPow2(x, n, k) ==
    IF n = 0 THEN x = F32Zero
    ELSE /\ x.m > 0
         /\ LET nz == Normalized(x)
                S == nz.E + k
            IN  IF S <= 0 THEN IsQuotient(x, n, Pow2(k))
                ELSE /\ S <= 30
                     /\ LET q == n \div Pow2(S)
                            r == n % Pow2(S)
                            half == Pow2(S - 1)
                            even == nz.M % 2 = 0
                        IN  \/ q = nz.M /\ (r < half \/ (r = half /\ even))
                            \/ q = nz.M - 1 /\ (r > half \/ (r = half /\ even))

\* the record printed in this iteration carries the fields of r
Emitted(r) ==
    \A i \in 1 .. Len(stdout) :
        /\ stdout[i]["temperature"] = r.Temperature
        /\ stdout[i]["power"] = r.Power
        /\ stdout[i]["gpu_usage"] = r.GpuUsage
        /\ stdout[i]["memory_total"] = r.MemoryTotal
        /\ stdout[i][MemoryUsedTag(variant)] = r.MemoryUsed

\* C6 as stated: when all reads succeed the record is the library values after
\* exact unit conversion: power * 1000 is the milliwatt value and each memory
\* field * 2^30 is the byte value
C6_ExactUnitConversion ==
    (AllReadsDone /\ pc # "exited") =>
        /\ metrics.Temperature = reads[1].value[1]
        /\ metrics.GpuUsage = reads[4].value[1]
        /\ IsQuotient(metrics.Power, reads[2].value[1], Milli)
        /\ IsQuotient(metrics.MemoryTotal, reads[3].value[1], Pow2(GiBShift))
        /\ IsQuotient(metrics.MemoryUsed, reads[3].value[2], Pow2(GiBShift))
        /\ Emitted(metrics)

\* C6 amended: when all reads succeed, temperature and utilization are the
\* library values, power is within half a unit in the last place of
\* milliwatts/1000 and exactly that quotient for whole watts, total and used
\* memory are the float32 nearest to bytes/2^30 (ties to even) and exactly that
\* quotient for byte values of at most 24 significant bits, and the record
\* printed carries these values
C6_Float32UnitConversion ==
    (AllReadsDone /\ pc # "exited") =>
        /\ metrics.Temperature = reads[1].value[1]
        /\ metrics.GpuUsage = reads[4].value[1]
        /\ IsNearestMilli(metrics.Power, reads[2].value[1])
        /\ reads[2].value[1] % Milli = 0 =>
             IsQuotient(metrics.Power, reads[2].value[1], Milli)
        /\ \A f \in 1 .. 2 :
             LET x == IF f = 1 THEN metrics.MemoryTotal ELSE metrics.MemoryUsed
                 n == reads[3].value[f]
             IN  /\ IsNearestPow2(x, n, GiBShift)
                 /\ (n = 0 \/ BitLen(OddPart(n)) <= F32Precision) =>
                      IsQuotient(x, n, Pow2(GiBShift))
        /\ Emitted(metrics)

\* a record with an inexact power (128001 mW) and an inexact used memory
\* (16 MiB + 1 byte) has been printed
C6_Witness ==
    /\ pc = "Sleep"
    /\ Len(stdout) = 1
    /\ reads[2].value[1] = 128001
    /\ reads[3].value[2] = 16777217

\* C7: one invocation of PublishCloudwatchMetrics makes exactly one
\* PutMetricData call, which carries one datum for each of GPU usage, memory
\* used, temperature and power, each with the record's value, the same two
\* instance dimensions and the caller's storage resolution
C7_OneBatchedCall ==
    /\ pc # "published" => putCalls = <<>>
    /\ pc = "published" =>
         /\ Len(putCalls) = 1
         /\ putCalls[1].Namespace = pubArgs.namespace
         /\ LET d == putCalls[1].MetricData
                value == [n \in {"GPU Usage", "Memory Used", "Temperature (C)", "Power (W)"} |->
                            CASE n = "GPU Usage" -> Canon(metrics.GpuUsage, 0)
                              [] n = "Memory Used" -> metrics.MemoryUsed
                              [] n = "Temperature (C)" -> Canon(metrics.Temperature, 0)
                              [] n = "Power (W)" -> metrics.Power]
            IN  /\ Len(d) = 4
                /\ {d[i].MetricName : i \in 1 .. 4} = DOMAIN value
                /\ \A i \in 1 .. 4 :
                     /\ d[i].Value = value[d[i].MetricName]
                     /\ d[i].StorageResolution = pubArgs.resolution
                     /\ Len(d[i].Dimensions) = 2
                     /\ d[i].Dimensions[1] = [Name |-> "InstancesId", Value |-> pubArgs.instanceID]
                     /\ d[i].Dimensions[2] = [Name |-> "InstanceType", Value |-> pubArgs.instanceType]

\* a call at resolution 1 of a record with a temperature, whose PutMetricData failed
C7_Witness ==
    /\ pc = "published"
    /\ pubArgs.resolution = 1
    /\ metrics.Temperature > 0
    /\ Len(pubErr) > 0
    /\ Len(putCalls) = 1

\* C8: once SIGINT or SIGTERM has been delivered the handler goroutine has it
\* and ends the process, wherever the main goroutine is, and after the exit
\* nothing more is printed
C8_SignalForcesExit ==
    /\ sigDelivered => hpc \in {"signalled", "exited"}
    /\ hpc = "exited" => (~Running /\ pc = "exited")

\* C9: every record printed is a JSON object with exactly the fields
\* temperature, power, gpu_usage, memory_total and memory_used, in both
\* variants, and memory_used carries the used memory
C9_JsonFieldNames ==
    \A i \in 1 .. Len(stdout) :
        /\ DOMAIN stdout[i] =
             {"temperature", "power", "gpu_usage", "memory_total", "memory_used"}
        /\ stdout[i]["memory_used"] = metrics.MemoryUsed

\* C10: GetMetrics reads temperature, power usage, memory info and utilization
\* rates in this order, attempts no read after a failed one, and returns the
\* all-zero Metrics with the error, also when the memory info had been read
C10_ReadOrderShortCircuit ==
    /\ Len(reads) <= Len(ReadOrder)
    /\ \A i \in 1 .. Len(reads) : reads[i].call = ReadOrder[i]
    /\ \A i \in 1 .. Len(reads) - 1 : reads[i].ret = "SUCCESS"
    /\ AnyReadFailed => (metrics = ZeroMetrics /\ Len(err) > 0)

\* the memory info was read (1.5 GiB in total), the utilization read failed,
\* and GetMetrics has returned
C10_Witness ==
    /\ pc = "CheckMetrics"
    /\ Len(reads) = 4
    /\ reads[4].ret # "SUCCESS"
    /\ reads[3].value[1] = 1610612736
    /\ frame.total # F32Zero

====
